---- MODULE Spec2Model ----
(***************************************************************************)
(* A model of coconut/command/util.py: the Runner (the interactive        *)
(* execution session: interpret, handling_errors, run, run_file,          *)
(* was_run_code) and the console-command helpers (call_output, run_cmd).  *)
(*                                                                         *)
(* Text is a sequence of tokens, so that joining and concatenating text   *)
(* is computed and "a" differs from "\na".  A Python value is a record    *)
(* [t |-> type name, s |-> the text of its str()].                        *)
(***************************************************************************)
EXTENDS Integers, Sequences, FiniteSets, TLC

VARIABLES
    vars,          \* Runner.vars: the session's owned environment
    stored,        \* Runner.stored: [none |-> TRUE] or the list of lines
    exitRaises,    \* Runner.exit: TRUE for sys.exit (raises SystemExit), FALSE for an injected handler that returns
    calls,         \* number of Runner calls made so far
    last,          \* the last Runner call: its arguments, events and outcome
    prev,          \* the call before it: operation and returned text
    ran,           \* every fragment passed to run(store=True) while storing, in order
    units,         \* the lines actually handed to Runner.store, in order
    emptyJoin,     \* TRUE once was_run_code collapsed an empty list
    failed,        \* TRUE once a fragment failed in a run with all_errors_exit=False
    cmd            \* the last run_cmd call: its arguments, process and outcome

allvars == <<vars, stored, exitRaises, calls, last, prev, ran, units, emptyJoin, failed, cmd>>

-----------------------------------------------------------------------------
(* Bounds *)

MaxCalls == 2
MaxLines == 4
MaxRounds == 2

-----------------------------------------------------------------------------
(* Python values and text *)

PyNone == [t |-> "NoneType", s |-> <<"None">>]
PyInt(n) == [t |-> "int", s |-> <<n>>]
PyStr(s) == [t |-> "str", s |-> s]
PyObj(n) == [t |-> "object", s |-> <<n>>]

\* ascii(result) as interpret prints it: repr() quotes a str, an int or
\* None prints as its digits or name.
Ascii(v) == IF v.t = "str" THEN <<"'">> \o v.s \o <<"'">> ELSE v.s

RECURSIVE Join(_)
\* "\n".join(lines)
Join(lines) ==
    IF Len(lines) = 0 THEN <<>>
    ELSE IF Len(lines) = 1 THEN lines[1]
    ELSE lines[1] \o <<"\n">> \o Join(Tail(lines))

\* dict.update: every binding of b written over a
Update(a, b) ==
    [n \in (DOMAIN a) \cup (DOMAIN b) |-> IF n \in DOMAIN b THEN b[n] ELSE a[n]]

Bind(env, n, v) == Update(env, [k \in {n} |-> v])

Ev(e, a) == [e |-> e, a |-> a]

-----------------------------------------------------------------------------
(* The fragments fed to the Runner, and what Python's eval and exec do    *)
(* with them.  A fragment is its source text (one token); Parse gives     *)
(* how Python parses it: as one expression ("expr"), only as a statement  *)
(* sequence ("stmts"), or not at all ("invalid").                          *)

Const(v) == [k |-> "const", v |-> v, n |-> ""]
Name(n) == [k |-> "name", v |-> PyNone, n |-> n]
CallPrint(v) == [k |-> "print", v |-> v, n |-> ""]
CallExit(v) == [k |-> "exit", v |-> v, n |-> ""]
DivZero == [k |-> "div0", v |-> PyNone, n |-> ""]

Assign(n, e) == [op |-> "assign", name |-> n, e |-> e]
ExprStmt(e) == [op |-> "expr", name |-> "", e |-> e]

Fragments ==
    { "2 + 2", "x = 2 + 2", "x", "print('hi')", "__name__",
      "y = 1; 1/0", "y = 5; exit(3)", "exit(0)", "x +", "match = 7" }

Parse(code) ==
    CASE code = "2 + 2" ->
            [syntax |-> "expr", body |-> <<ExprStmt(Const(PyInt("4")))>>]
      [] code = "x = 2 + 2" ->
            [syntax |-> "stmts", body |-> <<Assign("x", Const(PyInt("4")))>>]
      [] code = "x" ->
            [syntax |-> "expr", body |-> <<ExprStmt(Name("x"))>>]
      [] code = "print('hi')" ->
            [syntax |-> "expr", body |-> <<ExprStmt(CallPrint(PyStr(<<"hi">>)))>>]
      [] code = "__name__" ->
            [syntax |-> "expr", body |-> <<ExprStmt(Name("__name__"))>>]
      [] code = "y = 1; 1/0" ->
            [syntax |-> "stmts",
             body |-> <<Assign("y", Const(PyInt("1"))), ExprStmt(DivZero)>>]
      [] code = "y = 5; exit(3)" ->
            [syntax |-> "stmts",
             body |-> <<Assign("y", Const(PyInt("5"))), ExprStmt(CallExit(PyInt("3")))>>]
      [] code = "exit(0)" ->
            [syntax |-> "expr", body |-> <<ExprStmt(CallExit(PyInt("0")))>>]
      [] code = "match = 7" ->
            [syntax |-> "stmts", body |-> <<Assign("match", Const(PyInt("7")))>>]
      [] OTHER ->
            [syntax |-> "invalid", body |-> <<>>]

\* The outcome of running something: kind is "ok" or the name of the
\* exception raised; value is what is returned; env the environment as the
\* code left it; ev the events in order; code a SystemExit's status.
Outcome(kind, value, env, ev, code) ==
    [kind |-> kind, value |-> value, env |-> env, ev |-> ev, code |-> code]

\* eval and exec bind __builtins__ in the globals they are given when it
\* is missing, before they parse the code.
WithBuiltins(env) ==
    IF "__builtins__" \in DOMAIN env THEN env
    ELSE Bind(env, "__builtins__", PyObj("<module 'builtins'>"))

\* Evaluating one expression against env.
EvalExpr(e, env) ==
    CASE e.k = "const" -> Outcome("ok", e.v, env, <<>>, PyNone)
      [] e.k = "name" ->
            IF e.n \in DOMAIN env
            THEN Outcome("ok", env[e.n], env, <<>>, PyNone)
            ELSE Outcome("NameError", PyNone, env, <<>>, PyNone)
      [] e.k = "print" -> Outcome("ok", PyNone, env, <<Ev("print", e.v.s)>>, PyNone)
      [] e.k = "exit" -> Outcome("SystemExit", PyNone, env, <<>>, e.v)
      [] OTHER -> Outcome("ZeroDivisionError", PyNone, env, <<>>, PyNone)

RECURSIVE RunStmts(_, _, _)
\* Executing a statement sequence: each statement in order, stopping at
\* the first that raises; the bindings made before it stay.
RunStmts(body, env, ev) ==
    IF Len(body) = 0 THEN Outcome("ok", PyNone, env, ev, PyNone)
    ELSE LET st == body[1]
             r == EvalExpr(st.e, env)
         IN IF r.kind # "ok"
            THEN Outcome(r.kind, PyNone, env, ev \o r.ev, r.code)
            ELSE RunStmts(Tail(body),
                          IF st.op = "assign" THEN Bind(env, st.name, r.value) ELSE env,
                          ev \o r.ev)

\* eval(code, glob_vars)
py_eval(code, glob_vars) ==
    LET g == WithBuiltins(glob_vars)
        ast == Parse(code)
        called == <<Ev("eval", <<code>>)>>
    IN IF ast.syntax # "expr"
       THEN Outcome("SyntaxError", PyNone, g, called, PyNone)
       ELSE LET r == EvalExpr(ast.body[1].e, g)
            IN Outcome(r.kind, r.value, g, called \o r.ev, r.code)

\* exec(code, glob_vars), through exec_func with loc_vars=None
exec_func(code, glob_vars) ==
    LET g == WithBuiltins(glob_vars)
        ast == Parse(code)
        called == <<Ev("exec", <<code>>)>>
    IN IF ast.syntax = "invalid"
       THEN Outcome("SyntaxError", PyNone, g, called, PyNone)
       ELSE RunStmts(ast.body, g, called)

\* interpret without its print of the result
interpret_noprint(code, in_vars) ==
    LET r == py_eval(code, in_vars)
    IN IF r.kind = "SyntaxError"
       THEN LET x == exec_func(code, r.env)
            IN Outcome(x.kind, PyNone, x.env, r.ev \o x.ev, x.code)
       ELSE IF r.kind = "ok"
       THEN Outcome("ok", PyNone, r.env, r.ev, PyNone)
       ELSE r

\* interpret letting the SyntaxError of eval out, with no exec after it
interpret_surface(code, in_vars) ==
    LET r == py_eval(code, in_vars)
    IN IF r.kind = "ok"
       THEN Outcome("ok", PyNone, r.env,
                    r.ev \o (IF r.value # PyNone
                             THEN <<Ev("print", Ascii(r.value))>>
                             ELSE <<>>),
                    PyNone)
       ELSE r

\* interpret falling through to exec when the result is None
interpret_fallthrough(code, in_vars) ==
    LET r == py_eval(code, in_vars)
    IN IF r.kind = "SyntaxError" \/ (r.kind = "ok" /\ r.value = PyNone)
       THEN LET x == exec_func(code, r.env)
            IN Outcome(x.kind, PyNone, x.env, r.ev \o x.ev, x.code)
       ELSE IF r.kind = "ok"
       THEN Outcome("ok", PyNone, r.env, r.ev \o <<Ev("print", Ascii(r.value))>>, PyNone)
       ELSE r

\* interpret(code, in_vars): try to evaluate, otherwise execute
interpret(code, in_vars) ==
    LET r == py_eval(code, in_vars)
    IN IF r.kind = "SyntaxError"
       THEN LET x == exec_func(code, r.env)
            IN Outcome(x.kind, PyNone, x.env, r.ev \o x.ev, x.code)
       ELSE IF r.kind = "ok"
       THEN Outcome("ok", PyNone, r.env,
                    r.ev \o (IF r.value # PyNone
                             THEN <<Ev("print", Ascii(r.value))>>
                             ELSE <<>>),
                    PyNone)
       ELSE r

-----------------------------------------------------------------------------
(* The Runner *)

NonePath == [none |-> TRUE, p |-> <<>>]
SomePath(p) == [none |-> FALSE, p |-> p]

Paths == { <<"mod", ".", "py">> }

\* coconut.constants.fixpath: the path made absolute
fixpath(path) ==
    IF Len(path) > 0 /\ path[1] = "/" THEN path ELSE <<"/", "cwd", "/">> \o path

\* coconut.constants.reserved_vars
reserved_vars == {"data", "match"}

\* Runner.build_vars(path)
build_vars(path) ==
    LET init_vars == [n \in {"__name__", "__package__", "reload"} |->
                         CASE n = "__name__" -> PyStr(<<"__main__">>)
                           [] n = "__package__" -> PyNone
                           [] OTHER -> PyObj("<function reload>")]
        with_file == IF ~path.none
                     THEN Bind(init_vars, "__file__", PyStr(fixpath(path.p)))
                     ELSE init_vars
    IN Update(with_file, [var \in reserved_vars |-> PyNone])

NoStore == [none |-> TRUE, items |-> <<>>]
Storing(items) == [none |-> FALSE, items |-> items]

\* Runner.store(line)
store(selfstored, line) ==
    IF ~selfstored.none THEN Storing(Append(selfstored.items, line)) ELSE selfstored

\* self.exit(status) called inside handling_errors: the handler is called
\* once; sys.exit raises SystemExit out of the except clause, an injected
\* handler that returns lets the with block end normally.
call_exit(r, status, raises) ==
    LET ev == r.ev \o <<Ev("exit", status.s)>>
    IN IF raises THEN Outcome("SystemExit", PyNone, r.env, ev, status)
       ELSE Outcome("ok", PyNone, r.env, ev, PyNone)

\* handling_errors re-raising the failure after printing it
handling_errors_reraise(r, all_errors_exit, raises) ==
    IF r.kind = "ok" THEN r
    ELSE IF r.kind = "SystemExit" THEN call_exit(r, r.code, raises)
    ELSE LET d == [r EXCEPT !.ev = @ \o <<Ev("traceback", <<r.kind>>)>>]
         IN IF all_errors_exit THEN call_exit(d, PyInt("1"), raises) ELSE d

\* handling_errors ignoring all_errors_exit
handling_errors_noexit(r, all_errors_exit, raises) ==
    IF r.kind = "ok" THEN r
    ELSE IF r.kind = "SystemExit" THEN call_exit(r, r.code, raises)
    ELSE Outcome("ok", PyNone, r.env, r.ev \o <<Ev("traceback", <<r.kind>>)>>, PyNone)

\* handling_errors with SystemExit caught by the BaseException clause
handling_errors_generic(r, all_errors_exit, raises) ==
    IF r.kind = "ok" THEN r
    ELSE LET d == [r EXCEPT !.ev = @ \o <<Ev("traceback", <<r.kind>>)>>]
         IN IF all_errors_exit THEN call_exit(d, PyInt("1"), raises)
            ELSE Outcome("ok", PyNone, d.env, d.ev, PyNone)

\* Runner.handling_errors(all_errors_exit) around a body that ended as r
handling_errors(r, all_errors_exit, raises) ==
    IF r.kind = "ok" THEN r
    ELSE IF r.kind = "SystemExit" THEN call_exit(r, r.code, raises)
    ELSE LET d == [r EXCEPT !.ev = @ \o <<Ev("traceback", <<r.kind>>)>>]
         IN IF all_errors_exit THEN call_exit(d, PyInt("1"), raises)
            ELSE Outcome("ok", PyNone, d.env, d.ev, PyNone)

UseEval == {"None", "True", "False"}

\* the selection with eval and exec_func the other way round
run_func_swapped(use_eval, code, env) ==
    CASE use_eval = "None" -> interpret(code, env)
      [] use_eval = "True" -> exec_func(code, env)
      [] OTHER -> py_eval(code, env)

\* the run_func Runner.run selects, applied
run_func(use_eval, code, env) ==
    CASE use_eval = "None" -> interpret(code, env)
      [] use_eval = "True" -> py_eval(code, env)
      [] OTHER -> exec_func(code, env)

\* run's body merging the path-scoped environment under the session's
\* bindings, which win
run_body_keepsession(code, use_eval, path, store_arg, selfvars, selfstored) ==
    LET r == IF path.none THEN run_func(use_eval, code, selfvars)
             ELSE LET u == run_func(use_eval, code, build_vars(path))
                  IN [u EXCEPT !.env = Update(u.env, selfvars),
                               !.ev = @ \o <<Ev("merge", <<>>)>>]
        st == IF r.kind = "ok" /\ store_arg THEN store(selfstored, <<code>>)
              ELSE selfstored
    IN [out |-> r, stored |-> st]

\* run's body merging the path-scoped environment only when the fragment
\* succeeds (no finally)
run_body_nofinally(code, use_eval, path, store_arg, selfvars, selfstored) ==
    LET r == IF path.none THEN run_func(use_eval, code, selfvars)
             ELSE LET u == run_func(use_eval, code, build_vars(path))
                  IN IF u.kind = "ok"
                     THEN [u EXCEPT !.env = Update(selfvars, u.env),
                                    !.ev = @ \o <<Ev("merge", <<>>)>>]
                     ELSE [u EXCEPT !.env = selfvars]
        st == IF r.kind = "ok" /\ store_arg THEN store(selfstored, <<code>>)
              ELSE selfstored
    IN [out |-> r, stored |-> st]

\* The body of the with block of Runner.run: the outcome, with env the
\* session environment afterwards, and the stored lines afterwards.
run_body(code, use_eval, path, store_arg, selfvars, selfstored) ==
    LET r == IF path.none THEN run_func(use_eval, code, selfvars)
             ELSE LET u == run_func(use_eval, code, build_vars(path))
                  IN [u EXCEPT !.env = Update(selfvars, u.env),
                               !.ev = @ \o <<Ev("merge", <<>>)>>]
        st == IF r.kind = "ok" /\ store_arg THEN store(selfstored, <<code>>)
              ELSE selfstored
    IN [out |-> r, stored |-> st]

\* Runner.run(code, use_eval, path, all_errors_exit, store)
run(code, use_eval, path, all_errors_exit, store_arg, selfvars, selfstored, raises) ==
    LET b == run_body(code, use_eval, path, store_arg, selfvars, selfstored)
    IN [out |-> handling_errors(b.out, all_errors_exit, raises),
        body |-> b.out.kind,
        stored |-> b.stored]

RECURSIVE Concat(_)
Concat(lines) == IF Len(lines) = 0 THEN <<>> ELSE lines[1] \o Concat(Tail(lines))

\* was_run_code joining the lines with nothing between them
was_run_code_nosep(get_all, selfstored) ==
    IF selfstored.none THEN [kind |-> "ok", text |-> <<>>, stored |-> selfstored]
    ELSE LET st == IF get_all THEN Storing(<<Concat(selfstored.items)>>) ELSE selfstored
         IN IF Len(st.items) = 0
            THEN [kind |-> "IndexError", text |-> <<>>, stored |-> st]
            ELSE [kind |-> "ok", text |-> st.items[Len(st.items)], stored |-> st]

\* Runner.was_run_code(get_all): the text returned and the list kept
was_run_code(get_all, selfstored) ==
    IF selfstored.none THEN [kind |-> "ok", text |-> <<>>, stored |-> selfstored]
    ELSE LET st == IF get_all THEN Storing(<<Join(selfstored.items)>>) ELSE selfstored
         IN IF Len(st.items) = 0
            THEN [kind |-> "IndexError", text |-> <<>>, stored |-> st]
            ELSE [kind |-> "ok", text |-> st.items[Len(st.items)], stored |-> st]

\* Runner.update_vars(global_vars, ignore_vars): the destination
\* afterwards; del update_vars[del_var] raises KeyError for a name the
\* session does not bind, before the destination is touched
update_vars(global_vars, ignore_vars, selfvars) ==
    IF ignore_vars = {}
    THEN [kind |-> "ok", dest |-> Update(global_vars, selfvars)]
    ELSE IF \E del_var \in ignore_vars : del_var \notin DOMAIN selfvars
    THEN [kind |-> "KeyError", dest |-> global_vars]
    ELSE [kind |-> "ok",
          dest |-> Update(global_vars,
                          [n \in (DOMAIN selfvars) \ ignore_vars |-> selfvars[n]])]

\* The namespaces update_vars is given to fill, and the names to leave out
Dests ==
    { <<>>,
      [n \in {"__name__", "x"} |->
          IF n = "__name__" THEN PyStr(<<"other">>) ELSE PyInt("0")] }

IgnoreSets == { {}, {"__name__"}, {"x"}, {"__name__", "__file__"} }

-----------------------------------------------------------------------------
(* Loading a file: run_file(path) and splitname(path) *)

\* Position of the last / first occurrence of tok in seq, 0 when absent
LastIndex(seq, tok) ==
    LET hits == {i \in 1..Len(seq) : seq[i] = tok}
    IN IF hits = {} THEN 0 ELSE CHOOSE i \in hits : \A j \in hits : j <= i

FirstIndex(seq, tok) ==
    LET hits == {i \in 1..Len(seq) : seq[i] = tok}
    IN IF hits = {} THEN 0 ELSE CHOOSE i \in hits : \A j \in hits : i <= j

\* splitname splitting at the last extension separator, as os.path.splitext
splitname_lastext(path) ==
    LET cut == LastIndex(path, "/")
        filename == SubSeq(path, cut + 1, Len(path))
        dot == LastIndex(filename, ".")
    IN IF dot = 0
       THEN [kind |-> "ValueError", dirpath |-> <<>>, name |-> <<>>, exts |-> <<>>]
       ELSE [kind |-> "ok",
             dirpath |-> SubSeq(path, 1, IF cut > 1 THEN cut - 1 ELSE cut),
             name |-> SubSeq(filename, 1, dot - 1),
             exts |-> SubSeq(filename, dot + 1, Len(filename))]

\* splitname(path): the file name after the last separator, split at its
\* first extension separator; unpacking fails (ValueError) when the file
\* name holds none.
splitname(path) ==
    LET cut == LastIndex(path, "/")
        filename == SubSeq(path, cut + 1, Len(path))
        dot == FirstIndex(filename, ".")
    IN IF dot = 0
       THEN [kind |-> "ValueError", dirpath |-> <<>>, name |-> <<>>, exts |-> <<>>]
       ELSE [kind |-> "ok",
             dirpath |-> SubSeq(path, 1, IF cut > 1 THEN cut - 1 ELSE cut),
             name |-> SubSeq(filename, 1, dot - 1),
             exts |-> SubSeq(filename, dot + 1, Len(filename))]

FilePaths ==
    { <<"pkg", "/", "mod", ".", "tar", ".", "py">>, <<"bad", ".", "py">>,
      <<"quit", ".", "py">>, <<"script">> }

\* run_file(path), the module-level function: runpy.run_path gives the
\* namespace the file leaves, or raises what the file raises.
load_file(path) ==
    IF path = fixpath(<<"bad", ".", "py">>)
    THEN [kind |-> "ZeroDivisionError", module_vars |-> <<>>, code |-> PyNone]
    ELSE IF path = fixpath(<<"quit", ".", "py">>)
    THEN [kind |-> "SystemExit", module_vars |-> <<>>, code |-> PyInt("2")]
    ELSE [kind |-> "ok",
          module_vars |-> [n \in {"__name__", "__file__", "__builtins__", "z"} |->
                              CASE n = "__name__" -> PyStr(<<"__main__">>)
                                [] n = "__file__" -> PyStr(path)
                                [] n = "__builtins__" -> PyObj("<module 'builtins'>")
                                [] OTHER -> PyInt("7")],
          code |-> PyNone]

\* The body storing the import line before it loads the file
run_file_body_storefirst(path, selfvars, selfstored) ==
    LET f == load_file(path)
        sp == splitname(path)
        st == IF sp.kind = "ok"
              THEN store(selfstored, <<"from ">> \o sp.name \o <<" import *">>)
              ELSE selfstored
    IN IF f.kind # "ok"
       THEN [out |-> Outcome(f.kind, PyNone, selfvars, <<Ev("load", path)>>, f.code),
             stored |-> st]
       ELSE [out |-> Outcome(IF sp.kind = "ok" THEN "ok" ELSE sp.kind, PyNone,
                             Update(selfvars, f.module_vars), <<Ev("load", path)>>, PyNone),
             stored |-> st]

\* The body of the with block of Runner.run_file
run_file_body(path, selfvars, selfstored) ==
    LET f == load_file(path)
        sp == splitname(path)
    IN IF f.kind # "ok"
       THEN [out |-> Outcome(f.kind, PyNone, selfvars, <<Ev("load", path)>>, f.code),
             stored |-> selfstored]
       ELSE IF sp.kind # "ok"
       THEN [out |-> Outcome(sp.kind, PyNone, Update(selfvars, f.module_vars),
                             <<Ev("load", path)>>, PyNone),
             stored |-> selfstored]
       ELSE [out |-> Outcome("ok", PyNone, Update(selfvars, f.module_vars),
                             <<Ev("load", path)>>, PyNone),
             stored |-> store(selfstored, <<"from ">> \o sp.name \o <<" import *">>)]

\* Runner.run_file(path, all_errors_exit)
run_file(path, all_errors_exit, selfvars, selfstored, raises) ==
    LET b == run_file_body(fixpath(path), selfvars, selfstored)
    IN [out |-> handling_errors(b.out, all_errors_exit, raises),
        body |-> b.out.kind,
        stored |-> b.stored]

-----------------------------------------------------------------------------
(* Console commands: call_output and run_cmd *)

\* coconut.constants.oserror_retcode
oserror_retcode == 127

\* The invocations of run_cmd: one caller, or two at once
Invs == {1, 2}
SoloInvs == {1}

\* bytes.decode(encoding, "replace"): an ASCII byte becomes its character,
\* a byte that is not valid in the encoding becomes U+FFFD
CharOf(b) ==
    CASE b = 49 -> "1" [] b = 50 -> "2" [] b = 51 -> "3" [] b = 52 -> "4"
      [] b = 97 -> "a" [] b = 98 -> "b" [] b = 99 -> "c" [] b = 100 -> "d"
      [] OTHER -> "\\uFFFD"

Decode(raw) == [k \in 1..Len(raw) |-> CharOf(raw[k])]

\* What one p.communicate() of round r may hand back: stdout bytes and
\* stderr bytes, either of them possibly empty
RoundChunks(r) ==
    { [out |-> o, err |-> e] : o \in {<<>>, <<96 + r>>}, e \in {<<>>, <<255, 48 + r>>} }

Rounds(n) ==
    { rs \in [1..n -> UNION {RoundChunks(r) : r \in 1..n}] :
         \A r \in 1..n : rs[r] \in RoundChunks(r) }

RetCodes == {0, 1, -9}

\* The processes a command may turn out to be: one the OS cannot launch,
\* or one that hands back its output over 1..MaxRounds communications (poll
\* giving None until the last) and exits with a return code
Procs ==
    { [launch |-> FALSE, rounds |-> <<>>, retcode |-> oserror_retcode] }
    \cup { [launch |-> TRUE, rounds |-> rs, retcode |-> c] :
              rs \in UNION {Rounds(n) : n \in 1..MaxRounds}, c \in RetCodes }

Argvs == { <<>>, <<"prog">>, <<"nosuch">> }

\* shutil.which(cmd[0]) or cmd[0]
which(argv) ==
    IF argv[1] = "prog" THEN <<"/usr/bin/prog">> \o Tail(argv) ELSE argv

NoStdin == [none |-> TRUE, s |-> <<>>]
Stdins == { NoStdin, [none |-> FALSE, s |-> <<"in">>] }

NoRet == [none |-> TRUE, v |-> 0]
Ret(v) == [none |-> FALSE, v |-> v]

\* What run_cmd gave its caller: kind is "pending", "code" (an exit code
\* returned), "text" (captured output returned) or "raise" (exc raised,
\* carrying code, cmd and, when hasOutput, output)
Pending ==
    [kind |-> "pending", exc |-> "", code |-> 0, cmd |-> <<>>,
     hasOutput |-> FALSE, output |-> <<>>]
ReturnCode(c) == [Pending EXCEPT !.kind = "code", !.code = c]
ReturnText(t) == [Pending EXCEPT !.kind = "text", !.output = t]
CalledProcessError(c, argv) ==
    [Pending EXCEPT !.kind = "raise", !.exc = "CalledProcessError", !.code = c, !.cmd = argv]
CalledProcessErrorOutput(c, argv, t) ==
    [CalledProcessError(c, argv) EXCEPT !.hasOutput = TRUE, !.output = t]

Idle ==
    [pc |-> "idle", argv |-> <<>>, show_output |-> TRUE, raise_errs |-> TRUE,
     proc |-> [launch |-> FALSE, rounds |-> <<>>, retcode |-> oserror_retcode],
     stdin |-> NoStdin, given |-> NoStdin,
     stdout |-> <<>>, stderr |-> <<>>, retcode |-> NoRet, round |-> 0,
     handed |-> 0, log |-> <<>>, result |-> Pending]

\* The except OSError clause returning the sentinel code in both modes
on_oserror_code(c) ==
    IF c.raise_errs THEN CalledProcessError(oserror_retcode, c.argv)
    ELSE ReturnCode(oserror_retcode)

\* The except OSError clause of run_cmd
on_oserror(c) ==
    IF c.raise_errs THEN CalledProcessError(oserror_retcode, c.argv)
    ELSE IF c.show_output THEN ReturnCode(oserror_retcode)
    ELSE ReturnText(<<>>)

\* subprocess.check_call / subprocess.call of run_cmd's show_output branch
call_shown(c) ==
    IF ~c.proc.launch THEN on_oserror(c)
    ELSE IF c.raise_errs /\ c.proc.retcode # 0
         THEN CalledProcessError(c.proc.retcode, c.argv)
    ELSE ReturnCode(c.proc.retcode)

\* run_cmd joining stderr before stdout
finish_captured_errfirst(c) ==
    LET output == Concat(c.stderr \o c.stdout)
    IN IF c.retcode.v # 0 /\ c.raise_errs
       THEN CalledProcessErrorOutput(c.retcode.v, c.argv, output)
       ELSE ReturnText(output)

\* run_cmd raising the non-zero exit without the captured output
finish_captured_nooutput(c) ==
    LET output == Concat(c.stdout \o c.stderr)
    IN IF c.retcode.v # 0 /\ c.raise_errs
       THEN CalledProcessError(c.retcode.v, c.argv)
       ELSE ReturnText(output)

\* run_cmd once call_output has returned stdout, stderr, retcode
finish_captured(c) ==
    LET output == Concat(c.stdout \o c.stderr)
    IN IF c.retcode.v # 0 /\ c.raise_errs
       THEN CalledProcessErrorOutput(c.retcode.v, c.argv, output)
       ELSE ReturnText(output)

\* run_cmd up to the first wait: the assertion, the resolution of cmd[0],
\* the whole show_output branch, or the Popen of call_output
run_cmd_start(argv, show_output, raise_errs, stdin, proc) ==
    IF Len(argv) = 0
    THEN [Idle EXCEPT !.pc = "done", !.show_output = show_output,
              !.raise_errs = raise_errs, !.proc = proc, !.given = stdin,
              !.result = [Pending EXCEPT !.kind = "raise", !.exc = "CoconutInternalException"]]
    ELSE LET c == [Idle EXCEPT !.argv = which(argv), !.show_output = show_output,
                       !.raise_errs = raise_errs, !.proc = proc, !.stdin = stdin,
                       !.given = stdin,
                       !.log = <<"cmd">>]
         IN IF show_output THEN [c EXCEPT !.pc = "done", !.result = call_shown(c)]
            ELSE IF ~proc.launch THEN [c EXCEPT !.pc = "done", !.result = on_oserror(c)]
            ELSE [c EXCEPT !.pc = "loop"]

\* An iteration polling before it communicates: the exit code is set while
\* the last output is still unread
call_output_iteration_pollfirst(c) ==
    LET r == c.round + 1
        raw == c.proc.rounds[r]
        out == IF Len(raw.out) > 0 THEN Decode(raw.out) ELSE <<>>
        err == IF Len(raw.err) > 0 THEN Decode(raw.err) ELSE <<>>
    IN [c EXCEPT !.round = r,
                 !.handed = IF ~c.stdin.none THEN @ + 1 ELSE @,
                 !.stdin = NoStdin,
                 !.stdout = Append(@, out),
                 !.stderr = Append(@, err),
                 !.retcode = IF r >= Len(c.proc.rounds) - 1 THEN Ret(c.proc.retcode) ELSE NoRet]

\* An iteration that leaves stdin as it was given
call_output_iteration_keepstdin(c) ==
    LET r == c.round + 1
        raw == c.proc.rounds[r]
        out == IF Len(raw.out) > 0 THEN Decode(raw.out) ELSE <<>>
        err == IF Len(raw.err) > 0 THEN Decode(raw.err) ELSE <<>>
        log == c.log \o (IF ~c.stdin.none THEN <<"<0 ">> ELSE <<>>)
                     \o (IF Len(out) > 0 THEN <<"1> ">> ELSE <<>>)
                     \o (IF Len(err) > 0 THEN <<"2> ">> ELSE <<>>)
    IN [c EXCEPT !.round = r,
                 !.handed = IF ~c.stdin.none THEN @ + 1 ELSE @,
                 !.stdout = Append(@, out),
                 !.stderr = Append(@, err),
                 !.log = log,
                 !.retcode = IF r = Len(c.proc.rounds) THEN Ret(c.proc.retcode) ELSE NoRet]

\* One iteration of call_output's while loop
call_output_iteration(c) ==
    LET r == c.round + 1
        raw == c.proc.rounds[r]
        out == IF Len(raw.out) > 0 THEN Decode(raw.out) ELSE <<>>
        err == IF Len(raw.err) > 0 THEN Decode(raw.err) ELSE <<>>
        log == c.log \o (IF ~c.stdin.none THEN <<"<0 ">> ELSE <<>>)
                     \o (IF Len(out) > 0 THEN <<"1> ">> ELSE <<>>)
                     \o (IF Len(err) > 0 THEN <<"2> ">> ELSE <<>>)
    IN [c EXCEPT !.round = r,
                 !.handed = IF ~c.stdin.none THEN @ + 1 ELSE @,
                 !.stdin = NoStdin,
                 !.stdout = Append(@, out),
                 !.stderr = Append(@, err),
                 !.log = log,
                 !.retcode = IF r = Len(c.proc.rounds) THEN Ret(c.proc.retcode) ELSE NoRet]

\* The loop with stdout and stderr kept in lists that every invocation
\* appends to, instead of in locals
call_output_step_shared(c) ==
    LET d == call_output_iteration(
                 [c EXCEPT !.stdout = Concat([i \in 1..Cardinality(Invs) |-> cmd[i].stdout]),
                           !.stderr = Concat([i \in 1..Cardinality(Invs) |-> cmd[i].stderr])])
    IN IF d.retcode.none THEN d
       ELSE [d EXCEPT !.pc = "done", !.result = finish_captured(d)]

\* An iteration, and run_cmd's return when it was the last
call_output_step(c) ==
    LET d == call_output_iteration(c)
    IN IF d.retcode.none THEN d
       ELSE [d EXCEPT !.pc = "done", !.result = finish_captured(d)]

-----------------------------------------------------------------------------
(* State machine of the Runner *)

NoCall ==
    [op |-> "init", code |-> "", use_eval |-> "None", path |-> NonePath,
     all_errors_exit |-> FALSE, store |-> FALSE, get_all |-> FALSE,
     kind |-> "ok", body |-> "ok", value |-> PyNone, status |-> PyNone,
     text |-> <<>>, ev |-> <<>>, varsBefore |-> <<>>, storedBefore |-> NoStore,
     dest |-> <<>>, destBefore |-> <<>>, ignore |-> {}]

Summary(c) == [op |-> c.op, get_all |-> c.get_all, kind |-> c.kind, text |-> c.text]

\* Runner(comp=None, exit=..., store=..., path=None)
Init ==
    /\ vars = build_vars(NonePath)
    /\ stored \in {NoStore, Storing(<<>>)}
    /\ exitRaises \in BOOLEAN
    /\ calls = 0
    /\ last = NoCall
    /\ prev = Summary(NoCall)
    /\ ran = <<>>
    /\ units = <<>>
    /\ emptyJoin = FALSE
    /\ failed = FALSE
    /\ cmd = [i \in Invs |-> Idle]

Run(code, use_eval, path, all_errors_exit, store_arg) ==
    \E r \in {run(code, use_eval, path, all_errors_exit, store_arg, vars, stored, exitRaises)} :
       /\ calls' = calls + 1
       /\ vars' = r.out.env
       /\ stored' = r.stored
       /\ prev' = Summary(last)
       /\ last' = [NoCall EXCEPT !.op = "run", !.code = code, !.use_eval = use_eval,
                       !.path = path, !.all_errors_exit = all_errors_exit,
                       !.store = store_arg, !.kind = r.out.kind, !.body = r.body,
                       !.value = r.out.value, !.status = r.out.code, !.ev = r.out.ev,
                       !.varsBefore = vars, !.storedBefore = stored]
       /\ ran' = IF store_arg /\ ~stored.none THEN Append(ran, <<code>>) ELSE ran
       /\ units' = IF store_arg /\ ~stored.none /\ r.body = "ok"
                   THEN Append(units, <<code>>) ELSE units
       /\ failed' = (failed \/ (r.body \notin {"ok", "SystemExit"} /\ ~all_errors_exit))
       /\ UNCHANGED <<exitRaises, emptyJoin, cmd>>

RunFile(path, all_errors_exit) ==
    \E r \in {run_file(path, all_errors_exit, vars, stored, exitRaises)} :
       /\ calls' = calls + 1
       /\ vars' = r.out.env
       /\ stored' = r.stored
       /\ prev' = Summary(last)
       /\ last' = [NoCall EXCEPT !.op = "run_file", !.path = SomePath(path),
                       !.all_errors_exit = all_errors_exit,
                       !.kind = r.out.kind, !.body = r.body,
                       !.value = r.out.value, !.status = r.out.code, !.ev = r.out.ev,
                       !.varsBefore = vars, !.storedBefore = stored]
       /\ units' = IF ~stored.none /\ r.body = "ok"
                   THEN Append(units, <<"from ">> \o splitname(fixpath(path)).name \o <<" import *">>)
                   ELSE units
       /\ UNCHANGED <<exitRaises, ran, emptyJoin, failed, cmd>>

WasRunCode(get_all) ==
    \E r \in {was_run_code(get_all, stored)} :
       /\ calls' = calls + 1
       /\ stored' = r.stored
       /\ prev' = Summary(last)
       /\ last' = [NoCall EXCEPT !.op = "was_run_code", !.get_all = get_all,
                       !.kind = r.kind, !.body = r.kind, !.text = r.text,
                       !.varsBefore = vars, !.storedBefore = stored]
       /\ emptyJoin' = (emptyJoin \/ (get_all /\ ~stored.none /\ Len(stored.items) = 0))
       /\ UNCHANGED <<vars, exitRaises, ran, units, failed, cmd>>

UpdateVars(global_vars, ignore_vars) ==
    \E r \in {update_vars(global_vars, ignore_vars, vars)} :
       /\ calls' = calls + 1
       /\ prev' = Summary(last)
       /\ last' = [NoCall EXCEPT !.op = "update_vars", !.kind = r.kind, !.body = r.kind,
                       !.varsBefore = vars, !.storedBefore = stored,
                       !.dest = r.dest, !.destBefore = global_vars,
                       !.ignore = ignore_vars]
       /\ UNCHANGED <<vars, stored, exitRaises, ran, units, emptyJoin, failed, cmd>>

RunPaths == {NonePath} \cup {SomePath(p) : p \in Paths}

\* Any calls, in any order, at most MaxCalls of them (run with its
\* default store=True)
RunStep ==
    /\ calls < MaxCalls
    /\ \E code \in Fragments, use_eval \in UseEval, path \in RunPaths,
          all_errors_exit \in BOOLEAN :
            Run(code, use_eval, path, all_errors_exit, TRUE)

RunFileStep ==
    /\ calls < MaxCalls
    /\ \E path \in FilePaths, all_errors_exit \in BOOLEAN : RunFile(path, all_errors_exit)

WasRunCodeStep ==
    /\ calls < MaxCalls
    /\ \E get_all \in BOOLEAN : WasRunCode(get_all)

UpdateVarsStep ==
    /\ calls < MaxCalls
    /\ \E global_vars \in Dests, ignore_vars \in IgnoreSets :
            UpdateVars(global_vars, ignore_vars)

Next == RunStep \/ RunFileStep \/ WasRunCodeStep \/ UpdateVarsStep

Spec == Init /\ [][Next]_allvars

\* An interactive session that records: fragments typed at the prompt
\* (run with its defaults, stored or not), files loaded and the transcript
\* read, at most MaxLines calls
LineFragments == { "x = 2 + 2", "2 + 2", "y = 1; 1/0" }

LineStep ==
    /\ calls < MaxLines
    /\ \E code \in LineFragments, store_arg \in BOOLEAN :
            Run(code, "None", NonePath, FALSE, store_arg)

LineFileStep ==
    /\ calls < MaxLines
    /\ \E path \in FilePaths : RunFile(path, FALSE)

LineReadStep ==
    /\ calls < MaxLines
    /\ \E get_all \in BOOLEAN : WasRunCode(get_all)

SessionNext == LineStep \/ LineFileStep \/ LineReadStep

SessionSpec == Init /\ [][SessionNext]_allvars

-----------------------------------------------------------------------------
(* State machine of the console commands *)

RunCmd(i, argv, show_output, raise_errs, stdin, proc) ==
    /\ cmd[i].pc = "idle"
    /\ argv = <<"nosuch">> => ~proc.launch
    /\ show_output => stdin.none
    /\ cmd' = [cmd EXCEPT ![i] = run_cmd_start(argv, show_output, raise_errs, stdin, proc)]
    /\ UNCHANGED <<vars, stored, exitRaises, calls, last, prev, ran, units, emptyJoin, failed>>

Communicate(i) ==
    /\ cmd[i].pc = "loop"
    /\ cmd' = [cmd EXCEPT ![i] = call_output_step(cmd[i])]
    /\ UNCHANGED <<vars, stored, exitRaises, calls, last, prev, ran, units, emptyJoin, failed>>

CmdNext ==
    \/ \E i \in SoloInvs, argv \in Argvs, show_output \in BOOLEAN, raise_errs \in BOOLEAN,
          stdin \in Stdins, proc \in Procs :
            RunCmd(i, argv, show_output, raise_errs, stdin, proc)
    \/ \E i \in SoloInvs : Communicate(i)

CmdSpec == Init /\ [][CmdNext]_allvars

\* Two callers capturing the output of two commands at once, their loop
\* iterations interleaved in any order
ConcProcs == { p \in Procs : p.launch /\ p.retcode \in {0, 1} }

ConcInit == Init /\ ~exitRaises /\ stored = NoStore

ConcNext ==
    \/ \E i \in Invs, proc \in ConcProcs :
            RunCmd(i, <<"prog">>, FALSE, FALSE, NoStdin, proc)
    \/ \E i \in Invs : Communicate(i)

ConcSpec == ConcInit /\ [][ConcNext]_allvars

\* The loop of call_output runs in the calling thread and communicate
\* returns once the process has output or has ended: a started loop keeps
\* iterating
CmdFairSpec == CmdSpec /\ \A i \in Invs : WF_allvars(Communicate(i))

-----------------------------------------------------------------------------
(* Properties of the Runner *)

\* The events of one kind among ev, in order
Events(ev, kind) == SelectSeq(ev, LAMBDA e : e.e = kind)

\* The statuses the termination handler was called with, in order
ExitStatuses(ev) == [i \in 1..Len(Events(ev, "exit")) |-> Events(ev, "exit")[i].a]

\* The texts printed to stdout, in order
Printed(ev) == [i \in 1..Len(Events(ev, "print")) |-> Events(ev, "print")[i].a]

\* Position of the first event of a kind in ev, 0 when there is none
FirstEvent(ev, kind) ==
    LET hits == {i \in 1..Len(ev) : ev[i].e = kind}
    IN IF hits = {} THEN 0 ELSE CHOOSE i \in hits : \A j \in hits : i <= j

\* The wrapped action raised a failure other than SystemExit
IsFailure(kind) == kind \notin {"ok", "SystemExit"}

\* C1: a run with all_errors_exit=False whose fragment raises a failure
\* other than SystemExit returns to its caller without raising and without
\* calling the termination handler, and keeps the session environment (every
\* earlier binding stays); a later run of an unrelated fragment on the same
\* Runner completes normally, whatever failed before.
C1_SessionSurvives ==
    /\ (last.op = "run" /\ IsFailure(last.body) /\ ~last.all_errors_exit) =>
          /\ last.kind = "ok"
          /\ last.value = PyNone
          /\ ExitStatuses(last.ev) = <<>>
          /\ \A n \in DOMAIN last.varsBefore : n \in DOMAIN vars
          /\ last.path.none =>
                \A n \in (DOMAIN last.varsBefore) \ {"y"} : vars[n] = last.varsBefore[n]
    /\ (failed /\ last.op = "run" /\ last.code = "2 + 2") =>
          /\ last.body = "ok"
          /\ last.kind = "ok"
          /\ last.use_eval = "True" => last.value = PyInt("4")
          /\ last.use_eval = "None" => Printed(last.ev) = << <<"4">> >>

C1_Witness ==
    /\ failed
    /\ prev.op = "run"
    /\ last.op = "run" /\ last.code = "2 + 2" /\ last.use_eval = "None"
    /\ last.kind = "ok"
    /\ "y" \in DOMAIN vars

\* C2: under handling_errors(all_errors_exit=True) the termination
\* handler is called exactly once, with a non-zero status, when the wrapped
\* action fails (a failure other than SystemExit), and not at all when it
\* succeeds.
C2_ExitOnceOnFailure ==
    (last.op \in {"run", "run_file"} /\ last.all_errors_exit) =>
        /\ IsFailure(last.body) =>
              /\ Len(ExitStatuses(last.ev)) = 1
              /\ ExitStatuses(last.ev)[1] # <<"0">>
        /\ last.body = "ok" => ExitStatuses(last.ev) = <<>>

C2_Witness ==
    /\ last.op = "run" /\ last.all_errors_exit
    /\ last.body = "ZeroDivisionError"
    /\ ExitStatuses(last.ev) = << <<"1">> >>

\* C3: when the fragment raises SystemExit with status c, the termination
\* handler is called exactly once, with c, whatever all_errors_exit is; no
\* traceback is printed and the handler is not called with 1.
C3_SystemExitForwarded ==
    (last.op = "run" /\ last.body = "SystemExit") =>
        /\ Events(last.ev, "traceback") = <<>>
        /\ last.code = "exit(0)" => ExitStatuses(last.ev) = << <<"0">> >>
        /\ last.code = "y = 5; exit(3)" => ExitStatuses(last.ev) = << <<"3">> >>

C3_Witness ==
    /\ last.op = "run" /\ last.body = "SystemExit" /\ last.all_errors_exit
    /\ last.code = "y = 5; exit(3)"
    /\ ExitStatuses(last.ev) = << <<"3">> >>

\* C4 as stated: with storing enabled, was_run_code(get_all=True) returns
\* the join, in order, of every fragment passed before to run with
\* store=True, and the same string when called twice in a row.
C4_AsStated ==
    (last.op = "was_run_code" /\ last.get_all /\ ~last.storedBefore.none) =>
        /\ last.text = Join(ran)
        /\ (prev.op = "was_run_code" /\ prev.get_all) => last.text = prev.text

\* C4 amended: with storing enabled, was_run_code(get_all=True) called
\* twice in a row returns the same string, and the string is the newline
\* join, in order, of the lines stored: each fragment whose run with
\* store=True completed without failure and each import line of a file
\* loaded without failure (a fragment that failed is not stored), after one
\* empty line if the list was ever collapsed while empty.
C4_JoinOfStored ==
    (last.op = "was_run_code" /\ last.get_all /\ ~last.storedBefore.none) =>
        /\ last.kind = "ok"
        /\ last.text = Join(IF emptyJoin THEN << <<>> >> \o units ELSE units)
        /\ (prev.op = "was_run_code" /\ prev.get_all) => last.text = prev.text

C4_Witness ==
    /\ last.op = "was_run_code" /\ last.get_all
    /\ prev.op = "was_run_code" /\ prev.get_all
    /\ Len(units) = 2 /\ Len(ran) = 2
    /\ last.text = units[1] \o <<"\n">> \o units[2]

\* C5: a run with a path executes the fragment against a separate, freshly
\* built environment (session bindings are not visible to it), and on
\* every exit path (success, failure, SystemExit) every binding of that
\* environment is merged into the session environment, before the failure
\* is reported and before the termination handler is called.
C5_MergeOnEveryExit ==
    (last.op = "run" /\ ~last.path.none) =>
        LET fresh == build_vars(last.path)
            merged == FirstEvent(last.ev, "merge")
        IN /\ merged > 0
           /\ Len(Events(last.ev, "merge")) = 1
           /\ \A n \in DOMAIN fresh \cup {"__builtins__"} : n \in DOMAIN vars
           /\ vars["__file__"] = PyStr(fixpath(last.path.p))
           /\ \A n \in reserved_vars : last.code # "match = 7" => vars[n] = PyNone
           /\ \A n \in (DOMAIN last.varsBefore) \ (DOMAIN fresh \cup {"__builtins__", "x", "y"}) :
                 vars[n] = last.varsBefore[n]
           /\ last.code = "x" => last.body = "NameError"
           /\ (last.code = "x = 2 + 2" /\ last.use_eval # "True") => vars["x"] = PyInt("4")
           /\ (last.code = "y = 1; 1/0" /\ last.use_eval # "True") =>
                 (last.body = "ZeroDivisionError" /\ vars["y"] = PyInt("1"))
           /\ (last.code = "y = 5; exit(3)" /\ last.use_eval # "True") =>
                 (last.body = "SystemExit" /\ vars["y"] = PyInt("5"))
           /\ \A i \in 1..Len(last.ev) :
                 last.ev[i].e \in {"traceback", "exit"} => merged < i

C5_Witness ==
    /\ last.op = "run" /\ ~last.path.none /\ last.all_errors_exit
    /\ last.code = "y = 1; 1/0" /\ last.body = "ZeroDivisionError"
    /\ "y" \notin DOMAIN last.varsBefore
    /\ vars["y"] = PyInt("1")
    /\ FirstEvent(last.ev, "merge") < FirstEvent(last.ev, "traceback")
    /\ FirstEvent(last.ev, "traceback") < FirstEvent(last.ev, "exit")

\* The fragment is one expression and eval gives it a value other than None
\* in env
HasValue(code, env) ==
    /\ Parse(code).syntax = "expr"
    /\ EvalExpr(Parse(code).body[1].e, env).kind = "ok"
    /\ EvalExpr(Parse(code).body[1].e, env).value # PyNone

\* C6 as stated: in auto mode a fragment that is an expression with a
\* value other than None prints the value's representation exactly once and
\* leaves the set of bound names unchanged; an assignment prints nothing and
\* leaves the name bound to the value.
C6_AsStated ==
    (last.op = "run" /\ last.use_eval = "None" /\ last.path.none) =>
        /\ HasValue(last.code, last.varsBefore) =>
              /\ Len(Printed(last.ev)) = 1
              /\ DOMAIN vars = DOMAIN last.varsBefore
        /\ last.code = "x = 2 + 2" =>
              /\ Printed(last.ev) = <<>>
              /\ vars["x"] = PyInt("4")

\* C6 amended: in auto mode a fragment that is an expression with a value
\* other than None prints ascii(value) exactly once and binds no name of
\* its own, the bound names afterwards being those before and __builtins__,
\* which eval binds in the environment when it is missing; an assignment
\* prints nothing and leaves the name bound to the value.
C6_PrintOrBind ==
    (last.op = "run" /\ last.use_eval = "None" /\ last.path.none) =>
        /\ HasValue(last.code, last.varsBefore) =>
              /\ last.body = "ok"
              /\ last.code = "2 + 2" => Printed(last.ev) = << <<"4">> >>
              /\ last.code = "__name__" => Printed(last.ev) = << <<"'", "__main__", "'">> >>
              /\ last.code = "x" =>
                    Printed(last.ev) = << Ascii(last.varsBefore["x"]) >>
              /\ DOMAIN vars = DOMAIN last.varsBefore \cup {"__builtins__"}
              /\ \A n \in DOMAIN last.varsBefore : vars[n] = last.varsBefore[n]
        /\ last.code = "x = 2 + 2" =>
              /\ last.body = "ok"
              /\ Printed(last.ev) = <<>>
              /\ vars["x"] = PyInt("4")
              /\ DOMAIN vars = DOMAIN last.varsBefore \cup {"__builtins__", "x"}

C6_Witness ==
    /\ last.op = "run" /\ last.use_eval = "None" /\ last.path.none
    /\ last.code = "x" /\ HasValue("x", last.varsBefore)
    /\ Printed(last.ev) = << <<"4">> >>
    /\ prev.op = "run"

\* C7 as stated: in auto mode, when evaluating the fragment succeeds and
\* gives None, the fragment is then also executed as a statement sequence.
C7_AsStated ==
    (last.op = "run" /\ last.use_eval = "None" /\ last.code = "print('hi')") =>
        Len(Events(last.ev, "exec")) = 1

\* C7 amended: in auto mode, when evaluating the fragment succeeds and
\* gives None, interpret prints nothing and returns without executing the
\* fragment as a statement sequence: the fragment is evaluated exactly once.
C7_NoneIsNotExecuted ==
    (last.op = "run" /\ last.use_eval = "None" /\ last.code = "print('hi')") =>
        /\ last.body = "ok"
        /\ Len(Events(last.ev, "eval")) = 1
        /\ Events(last.ev, "exec") = <<>>
        /\ Printed(last.ev) = << <<"hi">> >>

C7_Witness ==
    /\ last.op = "run" /\ last.use_eval = "None" /\ last.code = "print('hi')"
    /\ last.path.none
    /\ last.ev = << Ev("eval", <<"print('hi')">>), Ev("print", <<"hi">>) >>

\* C12: when run_file succeeds on a path, the namespace the file leaves is
\* merged into the session environment and, when the Runner stores, exactly
\* one line is appended to the stored lines: "from <name> import *", <name>
\* being the file's base name without any of its extensions, not the
\* file's contents.
C12_FileStoredAsImport ==
    (last.op = "run_file" /\ last.body = "ok") =>
        /\ last.kind = "ok"
        /\ last.path.p = <<"pkg", "/", "mod", ".", "tar", ".", "py">>
        /\ vars["z"] = PyInt("7")
        /\ vars["__file__"] = PyStr(<<"/", "cwd", "/", "pkg", "/", "mod", ".", "tar", ".", "py">>)
        /\ \A n \in (DOMAIN last.varsBefore) \ {"z", "__file__", "__name__", "__builtins__"} :
              vars[n] = last.varsBefore[n]
        /\ stored.none = last.storedBefore.none
        /\ ~stored.none =>
              stored.items = Append(last.storedBefore.items, <<"from ", "mod", " import *">>)

C12_Witness ==
    /\ last.op = "run_file" /\ last.body = "ok"
    /\ prev.op = "run"
    /\ Len(stored.items) = 2
    /\ stored.items[2] = <<"from ", "mod", " import *">>
    /\ vars["z"] = PyInt("7")

\* C13: update_vars(global_vars, ignore_vars) leaves the session
\* environment as it was and, afterwards, the destination holds every
\* session binding whose name is not in ignore_vars, with the session's
\* value, while no name of ignore_vars is written to the destination.
C13_AsStated ==
    (last.op = "update_vars") =>
        /\ vars = last.varsBefore
        /\ \A n \in (DOMAIN vars) \ last.ignore :
              n \in DOMAIN last.dest /\ last.dest[n] = vars[n]
        /\ \A n \in last.ignore :
              IF n \in DOMAIN last.destBefore
              THEN n \in DOMAIN last.dest /\ last.dest[n] = last.destBefore[n]
              ELSE n \notin DOMAIN last.dest

\* C14: for a Runner that stores, after any interleaving of
\* run(store=True), run_file and was_run_code(get_all=True) the newline join
\* of the stored lines equals the newline join, in run order, of exactly the
\* units that ran successfully (fragments whose run completed, import lines
\* of files that loaded); collapsing never reorders, drops or adds content.
C14_AsStated ==
    ~stored.none => Join(stored.items) = Join(units)

\* C16: in auto mode, when eval of the fragment raises SyntaxError, the
\* fragment is executed exactly once as statements, after the one
\* evaluation attempt and against the same environment; no traceback is
\* printed for the evaluation attempt (the only one there can be is for a
\* failure of the execution itself), and a fragment that is valid as
\* statements never ends in a SyntaxError.
C16_FallbackIsSilent ==
    (last.op = "run" /\ last.use_eval = "None" /\ Parse(last.code).syntax # "expr") =>
        /\ Len(Events(last.ev, "eval")) = 1
        /\ Len(Events(last.ev, "exec")) = 1
        /\ FirstEvent(last.ev, "eval") < FirstEvent(last.ev, "exec")
        /\ Len(Events(last.ev, "traceback")) = (IF IsFailure(last.body) THEN 1 ELSE 0)
        /\ \A i \in 1..Len(last.ev) :
              last.ev[i].e = "traceback" =>
                 /\ i > FirstEvent(last.ev, "exec")
                 /\ last.ev[i].a = <<last.body>>
        /\ Parse(last.code).syntax = "stmts" => last.body # "SyntaxError"
        /\ last.body = exec_func(last.code,
                                 WithBuiltins(IF last.path.none THEN last.varsBefore
                                              ELSE build_vars(last.path))).kind
        /\ (last.code = "x = 2 + 2") =>
              /\ last.body = "ok"
              /\ last.ev[1].e = "eval" /\ last.ev[2].e = "exec"
              /\ vars["x"] = PyInt("4")
        /\ (last.code = "y = 1; 1/0" /\ last.path.none) =>
              /\ last.body = "ZeroDivisionError"
              /\ vars["y"] = PyInt("1")

C16_Witness ==
    /\ last.op = "run" /\ last.use_eval = "None" /\ last.code = "x = 2 + 2"
    /\ ~("x" \in DOMAIN last.varsBefore)
    /\ vars["x"] = PyInt("4")
    /\ Len(Events(last.ev, "exec")) = 1
    /\ Events(last.ev, "traceback") = <<>>

\* C17: run selects its action by use_eval: None runs interpret, True
\* evaluates only, anything else executes only; when the action completes,
\* run returns the action's result (the value for eval, None for interpret
\* and exec) and stores the fragment; when it fails and the failure does
\* not leave run, run returns None and the stored lines are as before.
C17_ModeSelectsAction ==
    (last.op = "run") =>
        LET nEval == Len(Events(last.ev, "eval"))
            nExec == Len(Events(last.ev, "exec"))
            isExpr == Parse(last.code).syntax = "expr"
        IN /\ last.use_eval = "True" =>
                 /\ nEval = 1 /\ nExec = 0
                 /\ isExpr <=> last.body # "SyntaxError"
                 /\ last.code = "2 + 2" => (last.body = "ok" /\ last.value = PyInt("4"))
                 /\ (last.code = "__name__" /\ last.path.none) =>
                       (last.body = "ok" /\ last.value = last.varsBefore["__name__"])
                 /\ last.code = "print('hi')" =>
                       (last.body = "ok" /\ last.value = PyNone
                        /\ Printed(last.ev) = << <<"hi">> >>)
           /\ last.use_eval = "False" =>
                 /\ nEval = 0 /\ nExec = 1
                 /\ last.value = PyNone
                 /\ last.code = "2 + 2" => (last.body = "ok" /\ Printed(last.ev) = <<>>)
           /\ last.use_eval = "None" =>
                 /\ nEval = 1 /\ nExec = (IF isExpr THEN 0 ELSE 1)
                 /\ last.value = PyNone
                 /\ last.code = "2 + 2" =>
                       (last.body = "ok" /\ Printed(last.ev) = << <<"4">> >>)
           /\ (last.body = "ok" /\ last.store /\ ~last.storedBefore.none) =>
                 stored = Storing(Append(last.storedBefore.items, <<last.code>>))
           /\ (last.body # "ok" /\ last.kind = "ok") =>
                 /\ last.value = PyNone
                 /\ stored = last.storedBefore

C17_Witness ==
    /\ last.op = "run" /\ last.use_eval = "True" /\ last.code = "x"
    /\ last.body = "NameError" /\ last.kind = "ok"
    /\ last.value = PyNone
    /\ ~stored.none /\ stored = last.storedBefore

\* What loading the file of the last run_file gave
Loaded == load_file(fixpath(last.path.p))

\* C19: when loading the file fails inside Runner.run_file, the session
\* environment and the stored lines are as before the call; the file's
\* failure does not reach the caller (all that can leave run_file is the
\* SystemExit of the termination handler itself); with all_errors_exit=True
\* the termination handler is called exactly once, with 1, or with the
\* file's own status when the file raised SystemExit.
C19_LoadFailureIsolated ==
    (last.op = "run_file" /\ Loaded.kind # "ok") =>
        /\ last.body = Loaded.kind
        /\ vars = last.varsBefore
        /\ stored = last.storedBefore
        /\ last.kind \in {"ok", "SystemExit"}
        /\ last.kind = "SystemExit" =>
              /\ exitRaises
              /\ Len(ExitStatuses(last.ev)) = 1
              /\ last.status.s = ExitStatuses(last.ev)[1]
        /\ last.all_errors_exit =>
              ExitStatuses(last.ev) =
                  << IF Loaded.kind = "SystemExit" THEN Loaded.code.s ELSE <<"1">> >>
        /\ last.path.p = <<"bad", ".", "py">> =>
              /\ Events(last.ev, "traceback") = << Ev("traceback", <<"ZeroDivisionError">>) >>
              /\ ~last.all_errors_exit => (last.kind = "ok" /\ ExitStatuses(last.ev) = <<>>)
        /\ last.path.p = <<"quit", ".", "py">> =>
              /\ Events(last.ev, "traceback") = <<>>
              /\ ExitStatuses(last.ev) = << <<"2">> >>

C19_Witness ==
    /\ last.op = "run_file" /\ last.path.p = <<"bad", ".", "py">>
    /\ last.all_errors_exit /\ ~exitRaises
    /\ prev.op = "run"
    /\ ~stored.none /\ Len(stored.items) = 1
    /\ "x" \in DOMAIN vars
    /\ last.kind = "ok"
    /\ ExitStatuses(last.ev) = << <<"1">> >>

\* C20: after run with a path, the session environment is its value
\* before the call overridden by the bindings the path-scoped environment
\* ends with: a name the scoped environment does not hold keeps its session
\* value; every name build_vars seeds (__name__, __package__, __file__,
\* reload, the reserved names) has the scoped environment's final value,
\* whatever the session bound it to before.
C20_ScopedOverridesSession ==
    (last.op = "run" /\ ~last.path.none) =>
        LET seeded == build_vars(last.path)
            scoped == run_func(last.use_eval, last.code, seeded).env
            executes == last.use_eval = "False"
                        \/ (last.use_eval = "None" /\ Parse(last.code).syntax # "expr")
        IN /\ vars = Update(last.varsBefore, scoped)
           /\ \A n \in (DOMAIN last.varsBefore) \ DOMAIN scoped :
                 n \in DOMAIN vars /\ vars[n] = last.varsBefore[n]
           /\ \A n \in DOMAIN seeded : n \in DOMAIN scoped /\ vars[n] = scoped[n]
           /\ vars["__name__"] = PyStr(<<"__main__">>)
           /\ vars["__package__"] = PyNone
           /\ vars["__file__"] = PyStr(<<"/", "cwd", "/">> \o last.path.p)
           /\ vars["reload"] = PyObj("<function reload>")
           /\ vars["data"] = PyNone
           /\ vars["match"] = (IF last.code = "match = 7" /\ executes
                               THEN PyInt("7") ELSE PyNone)
           /\ \A n \in {"x", "y", "z"} :
                 (n \in DOMAIN last.varsBefore
                  /\ ~(executes /\ last.code \in {"x = 2 + 2", "y = 1; 1/0", "y = 5; exit(3)"})) =>
                     vars[n] = last.varsBefore[n]

C20_Witness ==
    /\ last.op = "run" /\ ~last.path.none /\ last.code = "x = 2 + 2"
    /\ last.varsBefore["match"] = PyInt("7")
    /\ "__file__" \notin DOMAIN last.varsBefore
    /\ vars["match"] = PyNone
    /\ vars["__file__"] = PyStr(<<"/", "cwd", "/", "mod", ".", "py">>)
    /\ vars["x"] = PyInt("4")

-----------------------------------------------------------------------------
(* Properties of the console commands *)

\* The decoded stdout chunks of a process in arrival order, then its
\* decoded stderr chunks in arrival order, as one text
ExpectedOutput(proc) ==
    Concat([r \in 1..Len(proc.rounds) |-> Decode(proc.rounds[r].out)])
        \o Concat([r \in 1..Len(proc.rounds) |-> Decode(proc.rounds[r].err)])

\* C8: when the launch of a (non-empty) command fails with an OS error,
\* run_cmd with raise_errs=False returns oserror_retcode if show_output and
\* the empty string if not; with raise_errs=True it raises
\* CalledProcessError carrying oserror_retcode, in both output modes.
C8_LaunchFailure ==
    \A i \in Invs :
        (cmd[i].pc = "done" /\ Len(cmd[i].argv) > 0 /\ ~cmd[i].proc.launch) =>
            /\ (~cmd[i].raise_errs /\ cmd[i].show_output) =>
                  cmd[i].result = ReturnCode(oserror_retcode)
            /\ (~cmd[i].raise_errs /\ ~cmd[i].show_output) =>
                  cmd[i].result = ReturnText(<<>>)
            /\ cmd[i].raise_errs =>
                  /\ cmd[i].result.kind = "raise"
                  /\ cmd[i].result.exc = "CalledProcessError"
                  /\ cmd[i].result.code = oserror_retcode

C8_Witness ==
    \E i \in Invs :
        /\ cmd[i].pc = "done" /\ cmd[i].argv = <<"nosuch">> /\ ~cmd[i].proc.launch
        /\ ~cmd[i].raise_errs /\ ~cmd[i].show_output
        /\ cmd[i].result = ReturnText(<<>>)

\* C9: for a non-empty command whose process launches and exits 0, run_cmd
\* with show_output=False and raise_errs=False raises nothing and returns
\* all decoded stdout chunks in arrival order followed by all decoded
\* stderr chunks in arrival order, as one string.
C9_CapturedOutput ==
    \A i \in Invs :
        (cmd[i].pc = "done" /\ Len(cmd[i].argv) > 0 /\ cmd[i].proc.launch
            /\ cmd[i].proc.retcode = 0 /\ ~cmd[i].show_output /\ ~cmd[i].raise_errs) =>
            /\ cmd[i].result.kind = "text"
            /\ cmd[i].result.output = ExpectedOutput(cmd[i].proc)

C9_Witness ==
    \E i \in Invs :
        /\ cmd[i].pc = "done" /\ cmd[i].proc.launch /\ cmd[i].proc.retcode = 0
        /\ ~cmd[i].show_output /\ ~cmd[i].raise_errs
        /\ cmd[i].round = 2
        /\ cmd[i].result.kind = "text"
        /\ cmd[i].result.output = <<"a", "b", "\\uFFFD", "1", "\\uFFFD", "2">>

\* C10: run_cmd raises CalledProcessError only when raise_errs=True: with
\* raise_errs=False a non-empty command gets a value back (an exit code or
\* the captured text) whatever the process did, a non-zero exit code
\* included; with raise_errs=True and show_output=False a non-zero exit
\* raises CalledProcessError carrying the exit code and the joined captured
\* stdout and stderr.
C10_RaiseOnlyOnRequest ==
    \A i \in Invs :
        (cmd[i].pc = "done" /\ Len(cmd[i].argv) > 0) =>
            /\ ~cmd[i].raise_errs =>
                  /\ cmd[i].result.kind = (IF cmd[i].show_output THEN "code" ELSE "text")
                  /\ (cmd[i].show_output /\ cmd[i].proc.launch) =>
                        cmd[i].result.code = cmd[i].proc.retcode
                  /\ (~cmd[i].show_output /\ cmd[i].proc.launch) =>
                        cmd[i].result.output = ExpectedOutput(cmd[i].proc)
            /\ cmd[i].result.kind = "raise" => cmd[i].raise_errs
            /\ (cmd[i].raise_errs /\ ~cmd[i].show_output /\ cmd[i].proc.launch
                    /\ cmd[i].proc.retcode # 0) =>
                  /\ cmd[i].result.kind = "raise"
                  /\ cmd[i].result.exc = "CalledProcessError"
                  /\ cmd[i].result.code = cmd[i].proc.retcode
                  /\ cmd[i].result.hasOutput
                  /\ cmd[i].result.output = ExpectedOutput(cmd[i].proc)

C10_Witness ==
    \E i \in Invs :
        /\ cmd[i].pc = "done" /\ cmd[i].proc.launch /\ cmd[i].proc.retcode = -9
        /\ cmd[i].raise_errs /\ ~cmd[i].show_output
        /\ cmd[i].result.kind = "raise" /\ cmd[i].result.code = -9
        /\ cmd[i].result.hasOutput
        /\ cmd[i].result.output = <<"a", "\\uFFFD", "1">>

\* The exit code is set only once the output of every communication is in
\* the chunk lists
DrainedWhenSet ==
    \A i \in Invs :
        ~cmd[i].retcode.none =>
            /\ cmd[i].retcode.v = cmd[i].proc.retcode
            /\ cmd[i].round = Len(cmd[i].proc.rounds)
            /\ Len(cmd[i].stdout) = cmd[i].round
            /\ Len(cmd[i].stderr) = cmd[i].round

\* One step of a running loop is one communication: one chunk more in each
\* list; and once the exit code is set, it and the lists stay as they are
OneChunkPerIteration ==
    \A i \in Invs :
        /\ (cmd[i].pc = "loop" /\ cmd'[i] # cmd[i]) =>
              /\ cmd[i].retcode.none
              /\ cmd'[i].round = cmd[i].round + 1
              /\ Len(cmd'[i].stdout) = Len(cmd[i].stdout) + 1
              /\ Len(cmd'[i].stderr) = Len(cmd[i].stderr) + 1
        /\ ~cmd[i].retcode.none =>
              /\ cmd'[i].retcode = cmd[i].retcode
              /\ cmd'[i].stdout = cmd[i].stdout
              /\ cmd'[i].stderr = cmd[i].stderr

\* C11: for a process that terminates, call_output's loop terminates; each
\* iteration waits for one communication before it polls, the exit code
\* goes from absent to set once, only after that iteration's output was
\* appended to the stdout and stderr lists, and no chunk is appended after.
C11_LoopDrainsThenStops ==
    /\ []DrainedWhenSet
    /\ [][OneChunkPerIteration]_allvars
    /\ \A i \in Invs : (cmd[i].pc = "loop") ~> (cmd[i].pc = "done")

C11_Witness ==
    \E i \in Invs :
        /\ cmd[i].pc = "done" /\ cmd[i].round = 2
        /\ ~cmd[i].retcode.none
        /\ Len(cmd[i].stdout) = 2 /\ Len(cmd[i].stderr) = 2

\* The decoded chunks a process has handed back over its first n
\* communications, stream by stream
OwnOut(proc, n) == [r \in 1..n |-> Decode(proc.rounds[r].out)]
OwnErr(proc, n) == [r \in 1..n |-> Decode(proc.rounds[r].err)]

\* C15: two run_cmd/call_output invocations running at once share no
\* mutable state: under every interleaving of their iterations, the stdout
\* chunks, the stderr chunks and the exit code of each invocation come from
\* that invocation's own process only.
C15_OwnProcessOnly ==
    \A i \in Invs :
        cmd[i].pc \in {"loop", "done"} =>
            /\ cmd[i].stdout = OwnOut(cmd[i].proc, cmd[i].round)
            /\ cmd[i].stderr = OwnErr(cmd[i].proc, cmd[i].round)
            /\ cmd[i].pc = "done" =>
                  /\ cmd[i].retcode = Ret(cmd[i].proc.retcode)
                  /\ cmd[i].result = ReturnText(ExpectedOutput(cmd[i].proc))

C15_Witness ==
    /\ cmd[1].pc = "loop" /\ cmd[1].round = 1
    /\ cmd[2].pc = "loop" /\ cmd[2].round = 1
    /\ cmd[1].stdout = << <<"a">> >> /\ cmd[2].stdout = << <<>> >>
    /\ cmd[1].stderr = << <<>> >> /\ cmd[2].stderr = << <<"\\uFFFD", "1">> >>

\* The entries of a log that trace stdin
StdinTraces(log) == SelectSeq(log, LAMBDA l : l = "<0 ")

\* C18: stdin text given to call_output is passed to communicate at most
\* once, on the first iteration of the loop (exactly once when it was given
\* and an iteration ran); from then on stdin is None, so every later
\* iteration communicates with no stdin, and "<0 " is logged at most once,
\* before anything the process wrote.
C18_StdinOnce ==
    \A i \in Invs :
        LET c == cmd[i]
        IN /\ c.handed <= 1
           /\ Len(StdinTraces(c.log)) = c.handed
           /\ c.round = 0 => c.handed = 0
           /\ c.round >= 1 =>
                 /\ c.stdin.none
                 /\ c.handed = (IF c.given.none THEN 0 ELSE 1)
                 /\ c.handed = 1 => c.log[2] = "<0 "

C18_Witness ==
    /\ cmd[1].pc = "done" /\ cmd[1].round = 2
    /\ ~cmd[1].given.none
    /\ cmd[1].handed = 1
    /\ Len(StdinTraces(cmd[1].log)) = 1

====
